---- MODULE Spec2Model ----
(***************************************************************************)
(* Model of src/app.py: the Flask weather front-end.                       *)
(*                                                                         *)
(* One request is followed from its arrival to its response.  The handler  *)
(* index() is split at its single blocking point, the outbound             *)
(* requests.get of get_weather_data(); everything before and after that    *)
(* call is one step each.  get_weather_data() can also be called directly  *)
(* (as a unit test would), and /health is served by health_check().        *)
(*                                                                         *)
(* Python values are modelled by what the code does with them: JSON values *)
(* carry their type, strings are sequences of characters, dictionaries are *)
(* functions whose DOMAIN is their key set, and an expression's evaluation *)
(* either yields a value or raises an exception of a named class.          *)
(***************************************************************************)
EXTENDS Integers, Sequences, FiniteSets, TLC

(***************************************************************************)
(* Bounds of the model.                                                    *)
(***************************************************************************)
MaxLocLen == 1      \* longest submitted location string
MaxStrLen == 2      \* longest description / message string of a body
MaxClock == 1       \* datetime.now() takes a value in 0..MaxClock

(***************************************************************************)
(* Strings and str.capitalize().                                           *)
(***************************************************************************)
Whitespace == {" "}
LocChars == {" ", "L"}
BodyChars == {"a", "A"}

StrsUpTo(chars, n) == UNION {[1..k -> chars] : k \in 0..n}

upper(c) == CASE c = "a" -> "A" [] c = "u" -> "U" [] OTHER -> c
lower(c) == CASE c = "A" -> "a" [] c = "U" -> "u" [] OTHER -> c

\* A plausible slip: upper-case the first character and keep the rest as is.
capitalize_first_only(s) ==
    [i \in 1..Len(s) |-> IF i = 1 THEN upper(s[i]) ELSE s[i]]

\* Python's str.capitalize(): first character upper-cased, the rest lower-cased.
capitalize(s) ==
    [i \in 1..Len(s) |-> IF i = 1 THEN upper(s[i]) ELSE lower(s[i])]

\* The default of data.get('message', 'Unknown error').
UnknownError ==
    <<"U", "n", "k", "n", "o", "w", "n", " ", "e", "r", "r", "o", "r">>

(***************************************************************************)
(* JSON values: t is the type, n the number (in tenths), s the string.     *)
(***************************************************************************)
JV(t, n, s) == [t |-> t, n |-> n, s |-> s]
Absent == JV("absent", 0, <<>>)      \* the key is not in the object
JNull == JV("null", 0, <<>>)
JNum(n) == JV("num", n, <<>>)
JStr(s) == JV("str", 0, s)
BodyStrs == {JStr(s) : s \in StrsUpTo(BodyChars, MaxStrLen)}

(***************************************************************************)
(* The configured credential: os.environ.get("OPENWEATHER_API_KEY") is     *)
(* None, the empty string, or a key.                                       *)
(***************************************************************************)
ApiKeys ==
    {[set |-> FALSE, v |-> ""], [set |-> TRUE, v |-> ""], [set |-> TRUE, v |-> "k"]}

\* A plausible slip: `is not None` instead of truthiness.
key_is_not_none(k) == k.set

\* `OPENWEATHER_API_KEY` used as a condition: None and "" are falsy.
key_truthy(k) == k.set /\ k.v # ""

(***************************************************************************)
(* The submitted form: request.form.get('location') is None or a string.   *)
(***************************************************************************)
NoLocation == [present |-> FALSE, s |-> <<>>]
Locations ==
    {NoLocation} \cup {[present |-> TRUE, s |-> s] : s \in StrsUpTo(LocChars, MaxLocLen)}

\* A plausible slip: `is not None` instead of truthiness.
location_is_not_none(loc) == loc.present

\* `if location:` None and "" are falsy, every other string is truthy.
location_truthy(loc) == loc.present /\ Len(loc.s) > 0

IsWhitespaceOnly(loc) ==
    loc.present /\ Len(loc.s) > 0 /\ \A i \in 1..Len(loc.s) : loc.s[i] \in Whitespace

(***************************************************************************)
(* The upstream's answer: a status code and a body.  A body is not JSON,   *)
(* JSON that is not an object, or an object; of an object the model keeps  *)
(* the paths the code reads.  A container (main, weather, weather[0],      *)
(* wind) is absent, null or of the expected type.                          *)
(***************************************************************************)
HTTP_OK == 200
Statuses == {HTTP_OK, 201, 404, 500}
Is2xx(status) == status \in 200..299

Body(json, name, main, temp, humidity, weather, first, description, wind, speed, message) ==
    [json |-> json, name |-> name, main |-> main, temp |-> temp,
     humidity |-> humidity, weather |-> weather, first |-> first,
     description |-> description, wind |-> wind, speed |-> speed,
     message |-> message]

NotJson == Body("invalid", Absent, "absent", Absent, Absent, "absent", "none", Absent, "absent", Absent, Absent)
NotObject == Body("nonobject", Absent, "absent", Absent, Absent, "absent", "none", Absent, "absent", Absent, Absent)

NameVals == {Absent, JNull, JStr(<<"a">>)}
MainVals ==
    {[main |-> "absent", temp |-> Absent, humidity |-> Absent],
     [main |-> "null", temp |-> Absent, humidity |-> Absent]}
    \cup {[main |-> "object", temp |-> t, humidity |-> h] :
            t \in {Absent, JNull, JNum(150)}, h \in {Absent, JNum(70)}}
WeatherVals ==
    {[weather |-> w, first |-> "none", description |-> Absent] :
            w \in {"absent", "null", "empty"}}
    \cup {[weather |-> "list", first |-> "null", description |-> Absent]}
    \cup {[weather |-> "list", first |-> "object", description |-> d] :
            d \in {Absent, JNum(8)} \cup BodyStrs}
WindVals ==
    {[wind |-> "absent", speed |-> Absent], [wind |-> "null", speed |-> Absent]}
    \cup {[wind |-> "object", speed |-> v] : v \in {Absent, JNull, JNum(32)}}
MessageVals == {Absent, JNum(404)} \cup BodyStrs

\* Objects that vary the five weather fields.
FieldBodies ==
    {Body("object", n, m.main, m.temp, m.humidity, w.weather, w.first,
          w.description, d.wind, d.speed, Absent) :
        n \in NameVals, m \in MainVals, w \in WeatherVals, d \in WindVals}
\* Objects that vary the message, with the weather fields all there or all missing.
MessageBodies ==
    {Body("object", Absent, "absent", Absent, Absent, "absent", "none", Absent,
          "absent", Absent, msg) : msg \in MessageVals}
    \cup {Body("object", JStr(<<"a">>), "object", JNum(150), JNum(70), "list",
               "object", JStr(<<"a">>), "object", JNum(32), msg) : msg \in MessageVals}
Bodies == {NotJson, NotObject} \cup FieldBodies \cup MessageBodies

NoResponse == [state |-> "none", status |-> 0, body |-> NotJson]
Received(status, body) == [state |-> "received", status |-> status, body |-> body]
Failed == [state |-> "failed", status |-> 0, body |-> NotJson]

(***************************************************************************)
(* Exceptions and the evaluation of an expression.                         *)
(***************************************************************************)
Exc(cls, arg) == [cls |-> cls, arg |-> arg]
NoExc == Exc("none", "")
Ok(v) == [raised |-> FALSE, exc |-> NoExc, val |-> v]
Raise(cls, arg) == [raised |-> TRUE, exc |-> Exc(cls, arg), val |-> Absent]

\* isinstance(e, requests.exceptions.RequestException).  The JSONDecodeError of
\* response.json() is a RequestException from requests 2.27 on and a plain
\* ValueError before; `newRequests` says which library is installed.
IsRequestException(e, newRequests) ==
    \/ e.cls = "ConnectionError"
    \/ e.cls = "JSONDecodeError" /\ newRequests

\* response.json()
json(body) == IF body.json = "invalid" THEN Raise("JSONDecodeError", "") ELSE Ok(body)

\* data['name']
data_name(b) ==
    IF b.json # "object" THEN Raise("TypeError", "")
    ELSE IF b.name = Absent THEN Raise("KeyError", "name")
    ELSE Ok(b.name)

\* data['main'][key]
data_main(b, key) ==
    IF b.json # "object" THEN Raise("TypeError", "")
    ELSE IF b.main = "absent" THEN Raise("KeyError", "main")
    ELSE IF b.main # "object" THEN Raise("TypeError", "")
    ELSE IF b[key] = Absent THEN Raise("KeyError", key)
    ELSE Ok(b[key])

\* data['weather'][0]['description'].capitalize()
data_description(b) ==
    IF b.json # "object" THEN Raise("TypeError", "")
    ELSE IF b.weather = "absent" THEN Raise("KeyError", "weather")
    ELSE IF b.weather = "null" THEN Raise("TypeError", "")
    ELSE IF b.weather = "empty" THEN Raise("IndexError", "")
    ELSE IF b.first # "object" THEN Raise("TypeError", "")
    ELSE IF b.description = Absent THEN Raise("KeyError", "description")
    ELSE IF b.description.t # "str" THEN Raise("AttributeError", "")
    ELSE Ok(JStr(capitalize(b.description.s)))

\* data['wind']['speed']
data_wind_speed(b) ==
    IF b.json # "object" THEN Raise("TypeError", "")
    ELSE IF b.wind = "absent" THEN Raise("KeyError", "wind")
    ELSE IF b.wind # "object" THEN Raise("TypeError", "")
    ELSE IF b.speed = Absent THEN Raise("KeyError", "speed")
    ELSE Ok(b.speed)

\* data.get('message', 'Unknown error').capitalize()
data_message(b) ==
    IF b.json # "object" THEN Raise("AttributeError", "")
    ELSE IF b.message = Absent THEN Ok(JStr(capitalize(UnknownError)))
    ELSE IF b.message.t # "str" THEN Raise("AttributeError", "")
    ELSE Ok(JStr(capitalize(b.message.s)))

(***************************************************************************)
(* Python's None, the error messages and the two dictionaries the lookup   *)
(* returns.  A dictionary is a function; its DOMAIN is its key set.        *)
(***************************************************************************)
PyNone == [none |-> TRUE]

Err(kind, text, location, message, exc) ==
    [kind |-> kind, text |-> text, location |-> location, message |-> message,
     exc |-> exc]
IndexMissingApiKey ==
    Err("MissingApiKey", "OpenWeatherMap API Key is not set in environment variables.",
        NoLocation, <<>>, NoExc)
LookupMissingApiKey ==
    Err("MissingApiKey",
        "API Key not configured. Please set the OPENWEATHER_API_KEY environment variable.",
        NoLocation, <<>>, NoExc)
EmptyInput == Err("EmptyInput", "Please enter a location.", NoLocation, <<>>, NoExc)
UpstreamError(location, message) ==
    Err("UpstreamError", "Error fetching weather for {location}: {error_message}",
        location, message, NoExc)
NetworkError(e) ==
    Err("NetworkError", "Network error: {e}. Check internet connection or API endpoint.",
        NoLocation, <<>>, e)
MalformedResponse(e) ==
    Err("MalformedResponse",
        "Unexpected API response format: Missing key {e}. Please try again.",
        NoLocation, <<>>, e)
UnexpectedError(e) ==
    Err("UnexpectedError", "An unexpected error occurred: {e}", NoLocation, <<>>, e)

RecordKeys == {"location", "temp", "description", "humidity", "wind_speed", "current_time"}
ErrorDict(e) == [error |-> e]

\* datetime.now().strftime('%Y-%m-%d %H:%M:%S') of clock value `now`
strftime(now) == [format |-> "%Y-%m-%d %H:%M:%S", seconds |-> now]

(***************************************************************************)
(* get_weather_data(): what a call returns, or the exception that leaves   *)
(* it.                                                                     *)
(***************************************************************************)
NoResult == [st |-> "none", exc |-> NoExc, val |-> PyNone]
Returned(d) == [st |-> "returned", exc |-> NoExc, val |-> d]
Propagated(e) == [st |-> "raised", exc |-> e, val |-> PyNone]

\* The first of the evaluations in `es` that raises, or Ok(v) when none does.
FirstRaised(es, v) ==
    IF \E i \in 1..Len(es) : es[i].raised
    THEN es[CHOOSE i \in 1..Len(es) : es[i].raised /\ \A j \in 1..(i - 1) : ~es[j].raised]
    ELSE Ok(v)

\* The dictionary literal of the status-200 branch, evaluated left to right.
weather_record(b, now) ==
    LET n == data_name(b)
        t == data_main(b, "temp")
        d == data_description(b)
        h == data_main(b, "humidity")
        w == data_wind_speed(b)
    IN  FirstRaised(<<n, t, d, h, w>>,
                    [location |-> n.val, temp |-> t.val, description |-> d.val,
                     humidity |-> h.val, wind_speed |-> w.val,
                     current_time |-> strftime(now)])

\* The else branch: the upstream's message.
upstream_error(location, b) ==
    LET m == data_message(b)
    IN  IF m.raised THEN m ELSE Ok(ErrorDict(UpstreamError(location, m.val)))

\* The body of the try statement, once requests.get has returned or raised.
try_body(location, resp, now) ==
    IF resp.state = "failed" THEN Raise("ConnectionError", "")
    ELSE IF json(resp.body).raised THEN json(resp.body)
    ELSE IF resp.status = HTTP_OK THEN weather_record(resp.body, now)
    ELSE upstream_error(location, resp.body)

\* A plausible slip: no catch-all clause, other exceptions leave the function.
except_clauses_without_catch_all(e, newRequests) ==
    IF IsRequestException(e, newRequests) THEN Returned(ErrorDict(NetworkError(e)))
    ELSE IF e.cls = "KeyError" THEN Returned(ErrorDict(MalformedResponse(e)))
    ELSE Propagated(e)

\* The three except clauses, tried in order.
except_clauses(e, newRequests) ==
    IF IsRequestException(e, newRequests) THEN Returned(ErrorDict(NetworkError(e)))
    ELSE IF e.cls = "KeyError" THEN Returned(ErrorDict(MalformedResponse(e)))
    ELSE Returned(ErrorDict(UnexpectedError(e)))

\* get_weather_data from the return of requests.get on.
get_weather_data(location, resp, now, newRequests) ==
    LET r == try_body(location, resp, now)
    IN  IF r.raised THEN except_clauses(r.exc, newRequests) ELSE Returned(r.val)

(***************************************************************************)
(* index(): the assignment of the lookup's result and the template.        *)
(***************************************************************************)
\* A plausible slip: the record variable is assigned whatever the result is.
index_assign_always(result) ==
    IF "error" \in DOMAIN result
    THEN [error |-> result.error, weather_data |-> result]
    ELSE [error |-> PyNone, weather_data |-> result]

\* if 'error' in result: error = result['error'] else: weather_data = result
index_assign(result) ==
    IF "error" \in DOMAIN result
    THEN [error |-> result.error, weather_data |-> PyNone]
    ELSE [error |-> PyNone, weather_data |-> result]

\* "%.1f"|format(v): a number (in tenths) to one decimal place
format_1f(v) == [whole |-> v.n \div 10, tenth |-> v.n % 10]

Page(status, body, error, panel) ==
    [status |-> status, body |-> body, error |-> error, panel |-> panel]

\* HTML_TEMPLATE: {% if error %} ... {% elif weather_data %} ... {% endif %}
render_template_string(weather_data, error) ==
    IF error # PyNone THEN Ok(Page(200, "html", error, PyNone))
    ELSE IF weather_data # PyNone
    THEN IF weather_data.temp.t # "num" \/ weather_data.wind_speed.t # "num"
         THEN Raise("TypeError", "")
         ELSE Ok(Page(200, "html", PyNone,
                      [location |-> weather_data.location,
                       temp |-> format_1f(weather_data.temp),
                       description |-> weather_data.description,
                       humidity |-> weather_data.humidity,
                       wind_speed |-> format_1f(weather_data.wind_speed),
                       current_time |-> weather_data.current_time]))
    ELSE Ok(Page(200, "html", PyNone, PyNone))

NoPage == Page(0, "", PyNone, PyNone)
\* Flask's answer to an exception that leaves the view function
InternalServerError == Page(500, "Internal Server Error", PyNone, PyNone)

(***************************************************************************)
(* The state of one request.                                               *)
(***************************************************************************)
VARIABLES
    OPENWEATHER_API_KEY,  \* read once from the environment, never written again
    pc,                   \* "Idle", "LookingUp", "Responded", "Returned", "Rendered", "ServerError"
    entry,                \* "index", "health", or "lookup" for a direct call of get_weather_data
    method,               \* request.method
    location,             \* request.form.get('location'), or the argument of a direct call
    netCalls,             \* number of requests.get calls issued
    response,             \* what requests.get came back with
    result,               \* what get_weather_data returned (or raised)
    error,                \* index's local `error`
    weather_data,         \* index's local `weather_data`
    page                  \* the response of the view function

vars ==
    <<OPENWEATHER_API_KEY, pc, entry, method, location, netCalls, response, result,
      error, weather_data, page>>

Methods == {"GET", "POST"}
Clock == 0..MaxClock

Init ==
    /\ OPENWEATHER_API_KEY \in ApiKeys
    /\ pc = "Idle"
    /\ entry = "none"
    /\ method = "none"
    /\ location = NoLocation
    /\ netCalls = 0
    /\ response = NoResponse
    /\ result = NoResult
    /\ error = PyNone
    /\ weather_data = PyNone
    /\ page = NoPage

\* index() up to its return or up to the requests.get of get_weather_data().
IndexRequest(m, loc) ==
    /\ pc = "Idle"
    /\ entry' = "index"
    /\ method' = m
    /\ location' = loc
    /\ UNCHANGED <<OPENWEATHER_API_KEY, response, weather_data>>
    /\ IF ~key_truthy(OPENWEATHER_API_KEY)
       THEN /\ error' = IndexMissingApiKey
            /\ page' = render_template_string(PyNone, IndexMissingApiKey).val
            /\ pc' = "Rendered"
            /\ UNCHANGED <<netCalls, result>>
       ELSE IF m = "POST"
       THEN IF location_truthy(loc)
            THEN IF ~key_truthy(OPENWEATHER_API_KEY)
                 THEN /\ result' = Returned(ErrorDict(LookupMissingApiKey))
                      /\ error' = LookupMissingApiKey
                      /\ page' = render_template_string(PyNone, LookupMissingApiKey).val
                      /\ pc' = "Rendered"
                      /\ UNCHANGED netCalls
                 ELSE /\ netCalls' = netCalls + 1
                      /\ pc' = "LookingUp"
                      /\ UNCHANGED <<result, error, page>>
            ELSE /\ error' = EmptyInput
                 /\ page' = render_template_string(PyNone, EmptyInput).val
                 /\ pc' = "Rendered"
                 /\ UNCHANGED <<netCalls, result>>
       ELSE /\ page' = render_template_string(PyNone, PyNone).val
            /\ pc' = "Rendered"
            /\ UNCHANGED <<netCalls, result, error>>

\* get_weather_data(loc) called directly, up to its early return or its requests.get.
DirectCall(loc) ==
    /\ pc = "Idle"
    /\ loc.present
    /\ entry' = "lookup"
    /\ location' = loc
    /\ UNCHANGED <<OPENWEATHER_API_KEY, method, response, error, weather_data, page>>
    /\ IF ~key_truthy(OPENWEATHER_API_KEY)
       THEN /\ result' = Returned(ErrorDict(LookupMissingApiKey))
            /\ pc' = "Returned"
            /\ UNCHANGED netCalls
       ELSE /\ netCalls' = netCalls + 1
            /\ pc' = "LookingUp"
            /\ UNCHANGED result

\* health_check()
HealthCheck ==
    /\ pc = "Idle"
    /\ entry' = "health"
    /\ method' = "GET"
    /\ page' = Page(200, "OK", PyNone, PyNone)
    /\ pc' = "Rendered"
    /\ UNCHANGED <<OPENWEATHER_API_KEY, location, netCalls, response, result, error,
                   weather_data>>

\* A plausible slip: a failed attempt is tried again.
TransportFailsAndRetries ==
    /\ pc = "LookingUp"
    /\ netCalls < 3
    /\ netCalls' = netCalls + 1
    /\ UNCHANGED <<OPENWEATHER_API_KEY, pc, entry, method, location, response, result,
                   error, weather_data, page>>

\* requests.get raises: DNS failure, connection refused, connection reset.
TransportFails ==
    /\ pc = "LookingUp"
    /\ response' = Failed
    /\ pc' = "Responded"
    /\ UNCHANGED <<OPENWEATHER_API_KEY, entry, method, location, netCalls, result, error,
                   weather_data, page>>

\* requests.get returns the upstream's response.
UpstreamResponds ==
    /\ pc = "LookingUp"
    /\ \E status \in Statuses, body \in Bodies : response' = Received(status, body)
    /\ pc' = "Responded"
    /\ UNCHANGED <<OPENWEATHER_API_KEY, entry, method, location, netCalls, result, error,
                   weather_data, page>>

\* The rest of get_weather_data() and, for a request to '/', the rest of index().
Resume(now, newRequests) ==
    /\ pc = "Responded"
    /\ LET res == get_weather_data(location, response, now, newRequests)
       IN  /\ result' = res
           /\ IF entry = "lookup"
              THEN /\ pc' = "Returned"
                   /\ UNCHANGED <<error, weather_data, page>>
              ELSE IF res.st = "raised"
              THEN /\ pc' = "ServerError"
                   /\ page' = InternalServerError
                   /\ UNCHANGED <<error, weather_data>>
              ELSE LET a == index_assign(res.val)
                       r == render_template_string(a.weather_data, a.error)
                   IN  /\ error' = a.error
                       /\ weather_data' = a.weather_data
                       /\ IF r.raised
                          THEN pc' = "ServerError" /\ page' = InternalServerError
                          ELSE pc' = "Rendered" /\ page' = r.val
    /\ UNCHANGED <<OPENWEATHER_API_KEY, entry, method, location, netCalls, response>>

Next ==
    \/ \E m \in Methods, loc \in Locations : IndexRequest(m, loc)
    \/ \E loc \in Locations : DirectCall(loc)
    \/ HealthCheck
    \/ TransportFails
    \/ UpstreamResponds
    \/ \E now \in Clock, newRequests \in BOOLEAN : Resume(now, newRequests)

Spec == Init /\ [][Next]_vars

\* The handling thread runs on once requests.get has come back; nothing makes
\* requests.get come back (no timeout is passed to it).
LiveSpec == Spec /\ WF_vars(\E now \in Clock, newRequests \in BOOLEAN : Resume(now, newRequests))

(***************************************************************************)
(* Vocabulary of the properties, stated on the data and not through the    *)
(* operators that model the code.                                          *)
(***************************************************************************)
KeyMissing == ~OPENWEATHER_API_KEY.set \/ OPENWEATHER_API_KEY.v = ""
KeyConfigured == OPENWEATHER_API_KEY.set /\ OPENWEATHER_API_KEY.v # ""
LocationMissingOrEmpty == ~location.present \/ location.s = <<>>
LocationNonEmpty == location.present /\ location.s # <<>>
Finished == pc \in {"Returned", "Rendered", "ServerError"}

ReturnedError == result.st = "returned" /\ "error" \in DOMAIN result.val
ReturnedErrorOfKind(kind) == ReturnedError /\ result.val.error.kind = kind
ReturnedRecord == result.st = "returned" /\ RecordKeys \subseteq DOMAIN result.val

\* s with its first character upper-cased and the others as they are
FirstUpperRestSame(s, c) ==
    /\ Len(c) = Len(s)
    /\ \A i \in 1..Len(s) : c[i] = IF i = 1 THEN upper(s[i]) ELSE s[i]
\* s with its first character upper-cased and the others lower-cased
FirstUpperRestLower(s, c) ==
    /\ Len(c) = Len(s)
    /\ \A i \in 1..Len(s) : c[i] = IF i = 1 THEN upper(s[i]) ELSE lower(s[i])

\* The body is an object with all five fields.
HasAllFive(b) ==
    /\ b.json = "object"
    /\ b.name # Absent
    /\ b.main = "object" /\ b.temp # Absent /\ b.humidity # Absent
    /\ b.weather = "list" /\ b.first = "object" /\ b.description # Absent
    /\ b.wind = "object" /\ b.speed # Absent

\* The keys a body lacks on the paths to the five fields.
MissingKeys(b) ==
    {k \in {"name", "main", "temp", "humidity", "weather", "description", "wind", "speed"} :
        \/ k = "name" /\ b.name = Absent
        \/ k = "main" /\ b.main = "absent"
        \/ k = "temp" /\ b.main = "object" /\ b.temp = Absent
        \/ k = "humidity" /\ b.main = "object" /\ b.humidity = Absent
        \/ k = "weather" /\ b.weather \in {"absent", "empty"}
        \/ k = "description" /\ (b.weather = "empty" \/ (b.first = "object" /\ b.description = Absent))
        \/ k = "wind" /\ b.wind = "absent"
        \/ k = "speed" /\ b.wind = "object" /\ b.speed = Absent}

\* An object in which whatever is there has the expected type.
WellTyped(b) ==
    /\ b.json = "object"
    /\ b.main # "null" /\ b.weather # "null" /\ b.first # "null" /\ b.wind # "null"
    /\ b.description.t \in {"absent", "str"}

(***************************************************************************)
(* C1.  Without a credential (absent or empty) no request to '/' and no    *)
(* direct lookup issues a network call: the request to '/' is answered     *)
(* with the missing-key message and nothing else, the direct lookup        *)
(* returns its missing-key error.                                          *)
(***************************************************************************)
C1_MissingKeyNoNetworkCall ==
    KeyMissing =>
        /\ netCalls = 0
        /\ pc \notin {"LookingUp", "Responded"}
        /\ entry = "index" =>
              /\ pc = "Rendered"
              /\ page.error = IndexMissingApiKey
              /\ page.panel = PyNone
        /\ entry = "lookup" =>
              /\ pc = "Returned"
              /\ result = Returned(ErrorDict(LookupMissingApiKey))

\* An empty-string credential and a POST with a location: the case a mere None test lets through.
C1_Witness ==
    /\ OPENWEATHER_API_KEY.set /\ OPENWEATHER_API_KEY.v = ""
    /\ entry = "index" /\ method = "POST" /\ LocationNonEmpty
    /\ pc = "Rendered" /\ page.error = IndexMissingApiKey

(***************************************************************************)
(* C2.  With the credential configured, a POST to '/' whose location field *)
(* is missing or empty is answered with "Please enter a location." and no  *)
(* network call is issued.                                                 *)
(***************************************************************************)
C2_EmptyLocationIsEmptyInput ==
    (KeyConfigured /\ entry = "index" /\ method = "POST" /\ LocationMissingOrEmpty) =>
        /\ pc = "Rendered"
        /\ page.error = EmptyInput
        /\ page.panel = PyNone
        /\ netCalls = 0

C2_Witness ==
    /\ KeyConfigured /\ entry = "index" /\ method = "POST"
    /\ location.present /\ location.s = <<>>
    /\ pc = "Rendered" /\ page.error = EmptyInput

(***************************************************************************)
(* C3.  With the credential configured, a POST to '/' whose location is    *)
(* non-empty but whitespace only is answered with the EmptyInput error and *)
(* issues no network call.                                                 *)
(***************************************************************************)
C3_WhitespaceLocationIsEmptyInput ==
    (KeyConfigured /\ entry = "index" /\ method = "POST" /\ IsWhitespaceOnly(location)) =>
        /\ netCalls = 0
        /\ pc = "Rendered"
        /\ page.error = EmptyInput

(***************************************************************************)
(* C4.  Once a response has been received, a non-2xx status gives an       *)
(* UpstreamError carrying the body's message with its first letter         *)
(* capitalized ("Unknown error" without a message), whatever the body,     *)
(* and a 2xx status never gives an UpstreamError.                          *)
(***************************************************************************)
C4_StatusClassGatesUpstreamError ==
    (Finished /\ response.state = "received") =>
        /\ ~Is2xx(response.status) =>
              /\ ReturnedErrorOfKind("UpstreamError")
              /\ response.body.message = Absent =>
                    result.val.error.message = JStr(UnknownError)
              /\ response.body.message.t = "str" =>
                    /\ Len(result.val.error.message.s) = Len(response.body.message.s)
                    /\ Len(response.body.message.s) > 0 =>
                          result.val.error.message.s[1] = upper(response.body.message.s[1])
        /\ Is2xx(response.status) => ~ReturnedErrorOfKind("UpstreamError")

(***************************************************************************)
(* C5.  A status-200 response whose body is an object lacking one of the   *)
(* five fields (an empty `weather` list included) gives MalformedResponse  *)
(* naming a missing field.                                                 *)
(***************************************************************************)
C5_MissingFieldIsMalformedResponse ==
    (/\ Finished
     /\ response.state = "received"
     /\ response.status = 200
     /\ WellTyped(response.body)
     /\ MissingKeys(response.body) # {}) =>
        /\ ReturnedErrorOfKind("MalformedResponse")
        /\ result.val.error.exc.arg \in MissingKeys(response.body)

(***************************************************************************)
(* C6.  As claimed: a status-200 response whose body has all five fields   *)
(* gives a record with the body's name, temperature, humidity and wind     *)
(* speed, and the description with its first letter capitalized and the    *)
(* other characters unchanged.                                             *)
(***************************************************************************)
C6_RecordKeepsRestOfDescription ==
    (/\ Finished
     /\ response.state = "received"
     /\ response.status = 200
     /\ HasAllFive(response.body)) =>
        /\ ReturnedRecord
        /\ result.val.location = response.body.name
        /\ result.val.temp = response.body.temp
        /\ result.val.humidity = response.body.humidity
        /\ result.val.wind_speed = response.body.speed
        /\ result.val.description.t = "str"
        /\ FirstUpperRestSame(response.body.description.s, result.val.description.s)

(***************************************************************************)
(* C6, amended.  A status-200 response whose body has all five fields, the *)
(* description being a string, gives a record with the body's name,        *)
(* temperature, humidity and wind speed, and the description with its      *)
(* first character upper-cased and all the others lower-cased.             *)
(***************************************************************************)
C6_RecordCapitalizesDescription ==
    (/\ Finished
     /\ response.state = "received"
     /\ response.status = 200
     /\ HasAllFive(response.body)
     /\ response.body.description.t = "str") =>
        /\ ReturnedRecord
        /\ "error" \notin DOMAIN result.val
        /\ result.val.location = response.body.name
        /\ result.val.temp = response.body.temp
        /\ result.val.humidity = response.body.humidity
        /\ result.val.wind_speed = response.body.speed
        /\ result.val.description.t = "str"
        /\ FirstUpperRestLower(response.body.description.s, result.val.description.s)

\* A description with an upper-case letter after the first character.
C6_Witness ==
    /\ Finished
    /\ response.state = "received" /\ response.status = 200
    /\ HasAllFive(response.body)
    /\ response.body.description.t = "str"
    /\ \E i \in 2..Len(response.body.description.s) : response.body.description.s[i] = "A"
    /\ ReturnedRecord

(***************************************************************************)
(* C7.  Every call of the lookup returns: no exception leaves it, and what *)
(* it returns is a record or an error, never both and never neither.       *)
(***************************************************************************)
C7_LookupIsTotal ==
    /\ (Finished /\ netCalls > 0) => result.st # "none"
    /\ result.st # "none" =>
          /\ result.st = "returned"
          /\ ("error" \in DOMAIN result.val) # (RecordKeys \subseteq DOMAIN result.val)
          /\ "error" \in DOMAIN result.val => DOMAIN result.val = {"error"}

\* A body that is JSON but no object: the lookup's TypeError / AttributeError is caught.
C7_Witness ==
    /\ Finished
    /\ response.state = "received" /\ response.body.json = "nonobject"
    /\ ReturnedErrorOfKind("UnexpectedError")

(***************************************************************************)
(* C8.  No request issues more than one GET, and a request that reaches    *)
(* the lookup with a credential and a non-empty location has issued        *)
(* exactly one, whatever came back.                                        *)
(***************************************************************************)
C8_ExactlyOneGet ==
    /\ netCalls <= 1
    /\ (/\ KeyConfigured
        /\ LocationNonEmpty
        /\ (entry = "index" /\ method = "POST") \/ entry = "lookup") => netCalls = 1
    /\ response.state # "none" => pc # "LookingUp"

\* A failed attempt, reported once.
C8_Witness ==
    /\ entry = "index" /\ pc = "Rendered"
    /\ response.state = "failed"
    /\ netCalls = 1
    /\ page.error = NetworkError(Exc("ConnectionError", ""))

(***************************************************************************)
(* C9.  index never renders with both an error and a record set; a page    *)
(* with an error shows the error and no panel; a panel is shown only when  *)
(* no error is set and a record is; a GET with the credential configured   *)
(* gets the bare form.                                                     *)
(***************************************************************************)
C9_ErrorAndPanelExclusive ==
    (entry = "index" /\ pc \in {"Rendered", "ServerError"}) =>
        /\ ~(error # PyNone /\ weather_data # PyNone)
        /\ pc = "Rendered" =>
              /\ ~(page.error # PyNone /\ page.panel # PyNone)
              /\ error # PyNone => (page.error = error /\ page.panel = PyNone)
              /\ page.panel # PyNone => (error = PyNone /\ weather_data # PyNone)
              /\ (KeyConfigured /\ method = "GET") =>
                    page = Page(200, "html", PyNone, PyNone)

\* A page with the weather panel.
C9_Witness ==
    /\ entry = "index" /\ pc = "Rendered"
    /\ page.panel # PyNone
    /\ weather_data # PyNone

(***************************************************************************)
(* C10.  Once index has started a lookup it eventually answers.  (A 500    *)
(* answer is counted as an answer here, so that only a request that is     *)
(* never answered violates the property.)                                  *)
(***************************************************************************)
C10_LookupEventuallyAnswered ==
    (entry = "index" /\ pc = "LookingUp") ~> (pc \in {"Rendered", "ServerError"})

TypeOK ==
    /\ pc \in {"Idle", "LookingUp", "Responded", "Returned", "Rendered", "ServerError"}
    /\ netCalls \in 0..1

====
